---- MODULE Spec2Model ----
(***************************************************************************)
(* A model of server.py, the Notion avatar generator: the start-up         *)
(* sequence of the script (init_genai, load_reference_images, app.run),    *)
(* the /convert handler with its blocking call to the generative model,    *)
(* the extraction of the generated image from the model's response, the    *)
(* timestamped save into the output directory, and the three GET routes.   *)
(*                                                                         *)
(* Strings the code inspects character by character (uploaded file names)  *)
(* are sequences of one-character strings.  Strings the code builds with   *)
(* an f-string are sequences of their fragments.                           *)
(***************************************************************************)
EXTENDS Integers, Sequences, FiniteSets, TLC

(***************************************************************************)
(* Bounds of the model.                                                    *)
(***************************************************************************)
\* Number of /convert requests that can be in flight together (SpecConc).
NumRequests == 2
\* The clock runs over the instants 0..MaxNow.
MaxNow == 3
\* Instants per wall-clock second: datetime.now() is finer than the second
\* that strftime('%Y%m%d_%H%M%S') keeps.
TicksPerSecond == 2
\* Longest list of parts in an upstream response (SpecReply).
MaxParts == 2

(***************************************************************************)
(* Configuration, server.py lines 33-37.                                   *)
(***************************************************************************)
MAX_FILE_SIZE == 10 * 1024 * 1024

ALLOWED_EXTENSIONS ==
    { <<"p","n","g">>, <<"j","p","g">>, <<"j","p","e","g">>,
      <<"g","i","f">>, <<"b","m","p">>, <<"w","e","b","p">> }

\* ref_paths of load_reference_images, in list order.
ref_paths ==
    << "reference-avatar-2.png", "reference-avatar-3.png", "reference-image-6.png" >>

\* The instruction text of convert_to_notion_style (a fixed literal).
PROMPT == "STYLE REFERENCE EXAMPLES: The first 3 images show the EXACT Notion avatar style to replicate. ..."

None == "None"

(***************************************************************************)
(* str.lower and allowed_file.                                             *)
(***************************************************************************)
UpperCase ==
    << "A","B","C","D","E","F","G","H","I","J","K","L","M",
       "N","O","P","Q","R","S","T","U","V","W","X","Y","Z" >>

LowerCase ==
    << "a","b","c","d","e","f","g","h","i","j","k","l","m",
       "n","o","p","q","r","s","t","u","v","w","x","y","z" >>

LowerChar(c) ==
    IF \E i \in 1..Len(UpperCase) : UpperCase[i] = c
    THEN LowerCase[CHOOSE i \in 1..Len(UpperCase) : UpperCase[i] = c]
    ELSE c

\* str.lower()
Lower(s) == [i \in 1..Len(s) |-> LowerChar(s[i])]

\* filename.rsplit('.', 1)[1] for a filename that holds a '.': the text
\* after the last '.'.
RSplitDot1(s) ==
    LET last == CHOOSE i \in 1..Len(s) :
                    /\ s[i] = "."
                    /\ \A j \in (i+1)..Len(s) : s[j] # "."
    IN  SubSeq(s, last + 1, Len(s))

\* A plausible slip: any dot-separated component of the name is taken for
\* its extension ('png' in filename.lower().split('.')).
allowed_file_any_component(filename) ==
    \E i \in 1..Len(filename), j \in 1..Len(filename) :
        /\ i <= j
        /\ Lower(SubSeq(filename, i, j)) \in ALLOWED_EXTENSIONS
        /\ (i = 1 \/ filename[i-1] = ".")
        /\ (j = Len(filename) \/ filename[j+1] = ".")

allowed_file(filename) ==
    /\ \E i \in 1..Len(filename) : filename[i] = "."
    /\ Lower(RSplitDot1(filename)) \in ALLOWED_EXTENSIONS

\* A plausible slip: >= in place of > .
FileTooLargeInclusive(file_size) == file_size >= MAX_FILE_SIZE

\* file_size > MAX_FILE_SIZE
FileTooLarge(file_size) == file_size > MAX_FILE_SIZE

(***************************************************************************)
(* Images and their encodings.  An image is named by its picture; PNG      *)
(* encoding and base64 are tables, so that decoding text that is not an    *)
(* encoding fails as Image.open and base64.b64decode do.                   *)
(***************************************************************************)
Pictures == {"avatarA", "avatarB"}

\* Image.save(fp, 'PNG'): the bytes of a picture.
PngEncode(picture) ==
    CASE picture = "avatarA" -> "PNG(avatarA)"
      [] picture = "avatarB" -> "PNG(avatarB)"

\* Whether Image.open(io.BytesIO(bytes)) identifies an image.
IsImageBytes(bytes) == \E p \in Pictures : PngEncode(p) = bytes

\* Image.open(io.BytesIO(bytes)) for bytes it identifies.
ImageOpen(bytes) == CHOOSE p \in Pictures : PngEncode(p) = bytes

\* base64 text of the byte strings the model uses.
Base64Table ==
    { <<"PNG(avatarA)", "UE5HKGF2YXRhckEp">>,
      <<"PNG(avatarB)", "UE5HKGF2YXRhckIp">>,
      <<"junk", "anVuaw==">> }

\* Whether base64.b64decode(text) yields bytes (it raises otherwise).
IsBase64(text) == \E e \in Base64Table : e[2] = text

\* base64.b64decode(text)
B64Decode(text) == (CHOOSE e \in Base64Table : e[2] = text)[1]

(***************************************************************************)
(* Upstream responses: response.candidates[0].content.parts, each part     *)
(* with a text and an inline_data.  inline_data.type "absent" is a part    *)
(* without inline data; otherwise it is the Python type of                 *)
(* inline_data.data and value is that data.                                *)
(***************************************************************************)
NoInline == [type |-> "absent", value |-> ""]

TextPart == [text |-> "I can't help with that.", inline_data |-> NoInline]

InlinePart(type, value) ==
    [text |-> "", inline_data |-> [type |-> type, value |-> value]]

\* The parts a response is made of.
PartKinds ==
    { TextPart,
      InlinePart("bytes", "PNG(avatarA)"),
      InlinePart("bytes", "PNG(avatarB)"),
      InlinePart("bytes", "junk"),
      InlinePart("str", "UE5HKGF2YXRhckEp"),
      InlinePart("str", "not base64"),
      InlinePart("NoneType", "") }

SeqsUpTo(S, n) == UNION { [1..k -> S] : k \in 0..n }

\* generate_content raised (kind "raise", with the exception's text),
\* returned a response without candidates (kind "blocked"), or returned a
\* response with parts.
RaisedResponse(detail) == [kind |-> "raise", detail |-> detail, parts |-> << >>]

BlockedResponse == [kind |-> "blocked", detail |-> "", parts |-> << >>]

PartsResponse(parts) == [kind |-> "parts", detail |-> "", parts |-> parts]

UpstreamErrors == {"429 RESOURCE_EXHAUSTED", "503 UNAVAILABLE"}

\* Every response up to MaxParts parts.
Responses ==
    { RaisedResponse(d) : d \in UpstreamErrors }
    \cup { BlockedResponse }
    \cup { PartsResponse(ps) : ps \in SeqsUpTo(PartKinds, MaxParts) }

\* One response of each outcome.
FewResponses ==
    { RaisedResponse(d) : d \in UpstreamErrors }
    \cup { BlockedResponse,
           PartsResponse(<< >>),
           PartsResponse(<< TextPart >>),
           PartsResponse(<< InlinePart("bytes", "PNG(avatarA)") >>),
           PartsResponse(<< TextPart, InlinePart("str", "UE5HKGF2YXRhckIp") >>) }

(***************************************************************************)
(* convert_to_notion_style, after the call: lines 193-245.                 *)
(***************************************************************************)
\* The list comprehension of lines 197-201.
image_parts(response) ==
    LET inl == SelectSeq(response.parts, LAMBDA p : p.inline_data.type # "absent")
    IN  [i \in 1..Len(inl) |-> inl[i].inline_data]

\* Lines 213-222 and the except of 227-231 for one payload: the image, or
\* None when the payload is of another type or cannot be decoded.
DecodePayload(image_data) ==
    IF image_data.type = "bytes"
    THEN IF IsImageBytes(image_data.value) THEN ImageOpen(image_data.value) ELSE None
    ELSE IF image_data.type = "str"
    THEN IF IsBase64(image_data.value) /\ IsImageBytes(B64Decode(image_data.value))
         THEN ImageOpen(B64Decode(image_data.value))
         ELSE None
    ELSE None

\* A plausible slip: the first payload that decodes is used.
FirstDecodable(parts) ==
    IF \E i \in 1..Len(parts) : DecodePayload(parts[i]) # None
    THEN DecodePayload(parts[CHOOSE i \in 1..Len(parts) :
                                /\ DecodePayload(parts[i]) # None
                                /\ \A j \in 1..(i-1) : DecodePayload(parts[j]) = None])
    ELSE None

\* Lines 205-231: image_data = image_parts[0].
UseFirstPart(parts) == DecodePayload(parts[1])

Returned(image) == [kind |-> "return", image |-> image, detail |-> ""]

Raised(detail) == [kind |-> "raise", image |-> None, detail |-> detail]

\* A plausible slip: a response without image parts raises.
extract_result_raising(response) ==
    IF response.kind = "raise" THEN Raised(response.detail)
    ELSE IF response.kind = "blocked" THEN Raised("'NoneType' object is not subscriptable")
    ELSE IF Len(image_parts(response)) > 0
         THEN Returned(UseFirstPart(image_parts(response)))
         ELSE Raised("No image parts found in response")

\* Lines 188-245 from the return of generate_content on: what
\* convert_to_notion_style returns or raises.
extract_result(response) ==
    IF response.kind = "raise" THEN Raised(response.detail)
    ELSE IF response.kind = "blocked" THEN Raised("'NoneType' object is not subscriptable")
    ELSE IF Len(image_parts(response)) > 0
         THEN Returned(UseFirstPart(image_parts(response)))
         ELSE Returned(None)

(***************************************************************************)
(* Uploads: the multipart field 'image' of a POST /convert.                *)
(***************************************************************************)
FileNames ==
    { <<"a",".","p","n","g">>,                      \* a.png
      <<"A",".","J","P","e","G">>,                  \* A.JPeG
      <<"a",".","b",".","w","e","b","p">>,          \* a.b.webp
      <<".","g","i","f">>,                          \* .gif
      <<"a",".","p","n","g",".","e","x","e">>,      \* a.png.exe
      <<"a",".","t","x","t">>,                      \* a.txt
      <<"p","n","g">>,                              \* png
      <<"a",".">>,                                  \* a.
      << >> }                                       \* the empty name

FileSizes == {2048, MAX_FILE_SIZE, MAX_FILE_SIZE + 1, 15 * 1024 * 1024}

\* What the uploaded bytes are: no image at all, or an image of a mode.
FileData == {"corrupt", "RGB", "RGBA"}

\* 'image' not in request.files
NoUpload == [present |-> FALSE, filename |-> << >>, size |-> 0, data |-> "corrupt"]

Uploads ==
    [present : {TRUE}, filename : FileNames, size : FileSizes, data : FileData]
    \cup {NoUpload}

FewUploads ==
    { [present |-> TRUE, filename |-> <<"a",".","p","n","g">>, size |-> 2048,
       data |-> "RGBA"],
      [present |-> TRUE, filename |-> <<"a",".","t","x","t">>, size |-> 2048,
       data |-> "RGBA"],
      [present |-> TRUE, filename |-> <<"A",".","J","P","e","G">>,
       size |-> MAX_FILE_SIZE + 1, data |-> "RGB"],
      [present |-> TRUE, filename |-> <<"a",".","p","n","g">>, size |-> MAX_FILE_SIZE,
       data |-> "corrupt"] }

(***************************************************************************)
(* The state.                                                              *)
(***************************************************************************)
VARIABLES
    apiKey,            \* os.getenv('GEMINI_API_KEY'): None, "" or a key
    refFiles,          \* per ref_paths entry: "missing", "corrupt" or its mode
    phase,             \* "boot", "client_ready", "serving", "exited"
    exitStatus,        \* the status of exit(), None while running
    client,            \* the global client
    reference_images,  \* the global reference_images
    now,               \* datetime.now(), an instant
    files,             \* UPLOAD_FOLDER: file name -> bytes
    getResp,           \* the last answer to a GET
    pc,                \* per request: "idle", "calling", "generated", "saving", "done"
    upload,            \* per request: the upload it came with
    contents,          \* per request: the contents given to generate_content
    resp,              \* per request: what generate_content did
    image,             \* per request: generated_image
    stamp,             \* per request: the datetime.now() of line 308
    response,          \* per request: the answer, [status, body]
    calls,             \* per request: calls of generate_content
    writes             \* per request: files saved

globals == << apiKey, refFiles, phase, exitStatus, client, reference_images >>

reqVars == << pc, upload, contents, resp, image, stamp, response, calls, writes >>

vars == << apiKey, refFiles, phase, exitStatus, client, reference_images, now,
           files, getResp, pc, upload, contents, resp, image, stamp, response,
           calls, writes >>

Requests == 1..NumRequests

Instants == 0..MaxNow

NoResponse == [status |-> 0, body |-> [pending |-> TRUE]]

NoResp == [kind |-> "none", detail |-> "", parts |-> << >>]

NoGet == [route |-> "", status |-> 0, body |-> [pending |-> TRUE]]

(***************************************************************************)
(* Start-up: the __main__ block.                                           *)
(***************************************************************************)
\* Image.open, convert('RGB') and copy() of lines 76-80.
ReferenceImage(name) == [name |-> name, mode |-> "RGB"]

\* The loop of lines 73-85 over ref_paths[i..]: a path that does not exist
\* or does not open is skipped.
RECURSIVE LoadFrom(_, _)
LoadFrom(i, status) ==
    IF i > Len(ref_paths) THEN << >>
    ELSE IF status[i] \in {"missing", "corrupt"} THEN LoadFrom(i + 1, status)
    ELSE << ReferenceImage(ref_paths[i]) >> \o LoadFrom(i + 1, status)

\* A plausible slip: each image is inserted at the front of the list.
RECURSIVE LoadFromReversed(_, _)
LoadFromReversed(i, status) ==
    IF i > Len(ref_paths) THEN << >>
    ELSE IF status[i] \in {"missing", "corrupt"} THEN LoadFromReversed(i + 1, status)
    ELSE LoadFromReversed(i + 1, status) \o << ReferenceImage(ref_paths[i]) >>

\* A plausible slip: the references are loaded in reverse.
load_reference_images_reversed(status) == LoadFromReversed(1, status)

\* load_reference_images: the value it leaves in reference_images.
load_reference_images(status) == LoadFrom(1, status)

\* The environments a process can start in.
Environments ==
    [key : {None, "", "secret"},
     refs : [1..Len(ref_paths) -> {"missing", "corrupt", "RGBA"}]]

InitRequests ==
    /\ pc = [r \in Requests |-> "idle"]
    /\ upload = [r \in Requests |-> NoUpload]
    /\ contents = [r \in Requests |-> << >>]
    /\ resp = [r \in Requests |-> NoResp]
    /\ image = [r \in Requests |-> None]
    /\ stamp = [r \in Requests |-> -1]
    /\ response = [r \in Requests |-> NoResponse]
    /\ calls = [r \in Requests |-> 0]
    /\ writes = [r \in Requests |-> 0]

\* The module-level code, lines 22-44: the process as __main__ starts.
Init ==
    /\ \E e \in Environments : apiKey = e.key /\ refFiles = e.refs
    /\ phase = "boot"
    /\ exitStatus = None
    /\ client = None
    /\ reference_images = << >>
    /\ now = 0
    /\ files = << >>
    /\ getResp = NoGet
    /\ InitRequests

\* A plausible slip: init_genai goes on without a key.
InitGenaiNoKeyCheck ==
    /\ phase = "boot"
    /\ \E constructed \in BOOLEAN :
         IF constructed
         THEN /\ client' = "Client"
              /\ phase' = "client_ready"
              /\ exitStatus' = exitStatus
         ELSE /\ client' = client
              /\ phase' = "exited"
              /\ exitStatus' = 1
    /\ UNCHANGED << apiKey, refFiles, reference_images, now, files, getResp >>
    /\ UNCHANGED reqVars

\* init_genai and lines 340-342: without a key, or when genai.Client
\* raises, the process exits with status 1.
InitGenai ==
    /\ phase = "boot"
    /\ \E constructed \in BOOLEAN :
         IF apiKey \notin {None, ""} /\ constructed
         THEN /\ client' = "Client"
              /\ phase' = "client_ready"
              /\ exitStatus' = exitStatus
         ELSE /\ client' = client
              /\ phase' = "exited"
              /\ exitStatus' = 1
    /\ UNCHANGED << apiKey, refFiles, reference_images, now, files, getResp >>
    /\ UNCHANGED reqVars

\* Lines 345-354: load_reference_images, then app.run.
LoadReferenceImages ==
    /\ phase = "client_ready"
    /\ reference_images' = load_reference_images(refFiles)
    /\ phase' = "serving"
    /\ UNCHANGED << apiKey, refFiles, exitStatus, client, now, files, getResp >>
    /\ UNCHANGED reqVars

\* A server started with a key and every reference image in place.
InitServing ==
    /\ apiKey = "secret"
    /\ refFiles = [i \in 1..Len(ref_paths) |-> "RGBA"]
    /\ phase = "serving"
    /\ exitStatus = None
    /\ client = "Client"
    /\ reference_images = load_reference_images(refFiles)
    /\ now = 0
    /\ files = << >>
    /\ getResp = NoGet
    /\ InitRequests

(***************************************************************************)
(* POST /convert.                                                          *)
(***************************************************************************)
\* jsonify({'error': ...}), status
ErrorResponse(status, fragments) == [status |-> status, body |-> [error |-> fragments]]

\* Image.open(file.stream) and convert('RGB'), lines 295-299.
UserImage(u) == [name |-> "upload", mode |-> "RGB"]

\* convert_image up to the call of convert_to_notion_style, lines 266-299:
\* the error it answers with, or status 0 when it goes on to the call.  An
\* upload that does not open as an image raises at line 295 and is answered
\* by the except of lines 325-327.  Nothing here raises outside that try, so
\* the except of lines 329-331 answers no request of the model.
precheck(c, u) ==
    IF c = None
    THEN ErrorResponse(500, << "GenAI client not initialized" >>)
    ELSE IF ~u.present
    THEN ErrorResponse(400, << "No image file uploaded" >>)
    ELSE IF u.filename = << >>
    THEN ErrorResponse(400, << "No file selected" >>)
    ELSE IF ~allowed_file(u.filename)
    THEN ErrorResponse(400, << "Invalid file type. Please upload PNG, JPG, JPEG, GIF, BMP, or WebP" >>)
    ELSE IF FileTooLarge(u.size)
    THEN ErrorResponse(400, << "File too large. Maximum size is 10MB" >>)
    ELSE IF u.data = "corrupt"
    THEN ErrorResponse(500, << "Error processing image: ", "cannot identify image file" >>)
    ELSE NoResponse

\* Lines 172-183: reference images, then the user image, then the prompt.
build_contents(refs, user_image) == refs \o << user_image >> \o << PROMPT >>

\* A request arrives and runs to its answer or to the call of
\* client.models.generate_content (lines 266-299, 96-191), where it blocks.
ConvertImage(r, U) ==
    /\ phase = "serving"
    /\ pc[r] = "idle"
    /\ \E u \in U :
         /\ upload' = [upload EXCEPT ![r] = u]
         /\ IF precheck(client, u).status # 0
            THEN /\ response' = [response EXCEPT ![r] = precheck(client, u)]
                 /\ pc' = [pc EXCEPT ![r] = "done"]
                 /\ UNCHANGED << contents, calls >>
            ELSE /\ contents' = [contents EXCEPT
                                   ![r] = build_contents(reference_images, UserImage(u))]
                 /\ calls' = [calls EXCEPT ![r] = @ + 1]
                 /\ pc' = [pc EXCEPT ![r] = "calling"]
                 /\ UNCHANGED response
    /\ UNCHANGED << resp, image, stamp, writes >>
    /\ UNCHANGED << now, files, getResp >>
    /\ UNCHANGED globals

\* A plausible slip: a failed call is issued again.
UpstreamReplyRetrying(r, R) ==
    /\ pc[r] = "calling"
    /\ \E rsp \in R :
         /\ resp' = [resp EXCEPT ![r] = rsp]
         /\ IF extract_result(rsp).kind = "raise"
            THEN /\ calls[r] < 2
                 /\ calls' = [calls EXCEPT ![r] = @ + 1]
                 /\ UNCHANGED << response, pc, image >>
            ELSE IF extract_result(rsp).image = None
            THEN /\ response' = [response EXCEPT
                                   ![r] = ErrorResponse(500, << "Failed to generate avatar" >>)]
                 /\ pc' = [pc EXCEPT ![r] = "done"]
                 /\ UNCHANGED << image, calls >>
            ELSE /\ image' = [image EXCEPT ![r] = extract_result(rsp).image]
                 /\ pc' = [pc EXCEPT ![r] = "generated"]
                 /\ UNCHANGED << response, calls >>
    /\ UNCHANGED << upload, contents, stamp, writes >>
    /\ UNCHANGED << now, files, getResp >>
    /\ UNCHANGED globals

\* generate_content returns or raises, and the request runs on to its
\* answer or to line 308 (lines 188-245, 302-305, 325-327).
UpstreamReply(r, R) ==
    /\ pc[r] = "calling"
    /\ \E rsp \in R :
         /\ resp' = [resp EXCEPT ![r] = rsp]
         /\ IF extract_result(rsp).kind = "raise"
            THEN /\ response' = [response EXCEPT
                                   ![r] = ErrorResponse(500, << "Error processing image: ",
                                                                extract_result(rsp).detail >>)]
                 /\ pc' = [pc EXCEPT ![r] = "done"]
                 /\ UNCHANGED image
            ELSE IF extract_result(rsp).image = None
            THEN /\ response' = [response EXCEPT
                                   ![r] = ErrorResponse(500, << "Failed to generate avatar" >>)]
                 /\ pc' = [pc EXCEPT ![r] = "done"]
                 /\ UNCHANGED image
            ELSE /\ image' = [image EXCEPT ![r] = extract_result(rsp).image]
                 /\ pc' = [pc EXCEPT ![r] = "generated"]
                 /\ UNCHANGED response
    /\ UNCHANGED << upload, contents, stamp, calls, writes >>
    /\ UNCHANGED << now, files, getResp >>
    /\ UNCHANGED globals

\* Line 308: datetime.now().
TakeTimestamp(r) ==
    /\ pc[r] = "generated"
    /\ stamp' = [stamp EXCEPT ![r] = now]
    /\ pc' = [pc EXCEPT ![r] = "saving"]
    /\ UNCHANGED << upload, contents, resp, image, response, calls, writes >>
    /\ UNCHANGED << now, files, getResp >>
    /\ UNCHANGED globals

\* strftime('%Y%m%d_%H%M%S'): the instant cut to its second.
strftime(t) == t \div TicksPerSecond

\* A plausible slip: the file name keeps the whole instant.
output_filename_full_instant(t) == << "notion_avatar_", t, "_", t % TicksPerSecond, ".png" >>

\* Line 309: f"notion_avatar_{timestamp}.png"
output_filename(t) == << "notion_avatar_", strftime(t), ".png" >>

\* Lines 315-323.
SuccessResponse(filename) ==
    [status |-> 200,
     body |-> [success |-> TRUE,
               message |-> "Image converted successfully",
               results |-> << [fileName |-> filename,
                               filePath |-> << "/outputs/" >> \o filename,
                               mimeType |-> "image/png"] >>]]

\* A plausible slip: the image is also saved under a second name.
SaveImageTwice(r) ==
    /\ pc[r] = "saving"
    /\ files' = (output_filename(stamp[r]) :> PngEncode(image[r]))
                  @@ (<< "latest.png" >> :> PngEncode(image[r])) @@ files
    /\ writes' = [writes EXCEPT ![r] = @ + 2]
    /\ response' = [response EXCEPT ![r] = SuccessResponse(output_filename(stamp[r]))]
    /\ pc' = [pc EXCEPT ![r] = "done"]
    /\ UNCHANGED << upload, contents, resp, image, stamp, calls >>
    /\ UNCHANGED << now, getResp >>
    /\ UNCHANGED globals

\* Lines 309-323: the image is saved under the stamped name, replacing a
\* file of that name, and the request is answered.  Image.save is taken to
\* succeed and to write the file in one step.
SaveImage(r) ==
    /\ pc[r] = "saving"
    /\ files' = (output_filename(stamp[r]) :> PngEncode(image[r])) @@ files
    /\ writes' = [writes EXCEPT ![r] = @ + 1]
    /\ response' = [response EXCEPT ![r] = SuccessResponse(output_filename(stamp[r]))]
    /\ pc' = [pc EXCEPT ![r] = "done"]
    /\ UNCHANGED << upload, contents, resp, image, stamp, calls >>
    /\ UNCHANGED << now, getResp >>
    /\ UNCHANGED globals

\* Time passes.
Tick ==
    /\ now < MaxNow
    /\ now' = now + 1
    /\ UNCHANGED << files, getResp >>
    /\ UNCHANGED reqVars
    /\ UNCHANGED globals

(***************************************************************************)
(* The GET routes.                                                         *)
(***************************************************************************)
\* GET /health
HealthCheck ==
    /\ phase = "serving"
    /\ getResp' = [route |-> "/health", status |-> 200,
                   body |-> [status |-> "OK",
                             timestamp |-> now,
                             genai_initialized |-> client # None,
                             reference_images_loaded |-> Len(reference_images),
                             api_key_configured |-> apiKey \notin {None, ""}]]
    /\ UNCHANGED << now, files >>
    /\ UNCHANGED reqVars
    /\ UNCHANGED globals

\* GET /
Index ==
    /\ phase = "serving"
    /\ getResp' = [route |-> "/", status |-> 200, body |-> [file |-> "index.html"]]
    /\ UNCHANGED << now, files >>
    /\ UNCHANGED reqVars
    /\ UNCHANGED globals

\* GET /outputs/<filename>
ServeOutput ==
    /\ phase = "serving"
    /\ \E t \in Instants :
         getResp' = IF output_filename(t) \in DOMAIN files
                    THEN [route |-> "/outputs", status |-> 200,
                          body |-> [file |-> files[output_filename(t)]]]
                    ELSE [route |-> "/outputs", status |-> 404,
                          body |-> [file |-> "Not Found"]]
    /\ UNCHANGED << now, files >>
    /\ UNCHANGED reqVars
    /\ UNCHANGED globals

(***************************************************************************)
(* Specifications.                                                         *)
(***************************************************************************)
\* One request with any upload, from the start of the process.
Next ==
    \/ InitGenai
    \/ LoadReferenceImages
    \/ ConvertImage(1, Uploads)
    \/ UpstreamReply(1, FewResponses)
    \/ TakeTimestamp(1)
    \/ SaveImage(1)
    \/ Tick
    \/ HealthCheck
    \/ Index
    \/ ServeOutput

Spec == Init /\ [][Next]_vars

\* One request of a running server, with any upstream response.
NextReply ==
    \/ ConvertImage(1, FewUploads)
    \/ UpstreamReply(1, Responses)
    \/ TakeTimestamp(1)
    \/ SaveImage(1)
    \/ Tick

SpecReply == InitServing /\ [][NextReply]_vars

\* Concurrent requests of a running server.
NextConc ==
    \/ \E r \in Requests :
         \/ ConvertImage(r, FewUploads)
         \/ UpstreamReply(r, FewResponses)
         \/ TakeTimestamp(r)
         \/ SaveImage(r)
    \/ Tick

SpecConc == InitServing /\ [][NextConc]_vars

(***************************************************************************)
(* Properties.  What a property expects is written from the stated         *)
(* contract, apart from the operators of the handler.                      *)
(***************************************************************************)
\* The name ends, whatever the case of its letters, in a '.' followed by an
\* extension of the allow-list.
HasAllowedExtension(name) ==
    \E e \in ALLOWED_EXTENSIONS :
        /\ Len(name) > Len(e)
        /\ name[Len(name) - Len(e)] = "."
        /\ Lower(SubSeq(name, Len(name) - Len(e) + 1, Len(name))) = e

Answered(r) == pc[r] = "done"

Arrived(r) == pc[r] # "idle"

\* C1: a /convert request whose uploaded file name has no allow-listed
\* extension is answered with status 400, and no call to the upstream model
\* is made for it.
C1_InvalidExtensionRejected ==
    \A r \in Requests :
        (Arrived(r) /\ upload[r].present /\ ~HasAllowedExtension(upload[r].filename))
        => /\ Answered(r)
           /\ response[r].status = 400
           /\ calls[r] = 0

C1_Witness ==
    \E r \in Requests :
        /\ Answered(r)
        /\ upload[r].filename = <<"a",".","p","n","g",".","e","x","e">>
        /\ upload[r].size = 2048
        /\ response[r].status = 400
        /\ calls[r] = 0

\* C2: a file with a valid extension and a size of at most 10 MiB, the
\* boundary included, is not rejected by validation; a file over 10 MiB is
\* answered with status 400 whatever its extension, with no upstream call.
C2_SizeValidation ==
    \A r \in Requests :
        /\ (Arrived(r) /\ upload[r].present /\ HasAllowedExtension(upload[r].filename)
              /\ upload[r].size <= 10 * 1024 * 1024)
           => response[r].status # 400
        /\ (Arrived(r) /\ upload[r].present /\ upload[r].size > 10 * 1024 * 1024)
           => /\ Answered(r)
              /\ response[r].status = 400
              /\ calls[r] = 0

C2_Witness ==
    \E r \in Requests :
        /\ upload[r].present
        /\ HasAllowedExtension(upload[r].filename)
        /\ upload[r].size = 10 * 1024 * 1024
        /\ upload[r].data # "corrupt"
        /\ calls[r] = 1
        /\ response[r].status = 200

\* The texts of the exceptions raised inside a request.
ExceptionTexts ==
    UpstreamErrors
    \cup {"'NoneType' object is not subscriptable", "cannot identify image file",
          "GenAI client not initialized"}

\* C3: a /convert request answered with status 500 has a generic body: no
\* fragment of the body is the text of the internal exception, and two
\* requests whose upstream calls raised with different texts are answered
\* with the same body.
C3_GenericServerErrors ==
    \A r \in Requests :
        (Answered(r) /\ response[r].status = 500)
        => /\ \A i \in 1..Len(response[r].body.error) :
                response[r].body.error[i] \notin ExceptionTexts
           /\ \A q \in Requests :
                (Answered(q) /\ resp[r].kind = "raise" /\ resp[q].kind = "raise")
                => response[q].body = response[r].body

\* The response has parts and none of them holds inline data.
TextOnly(rsp) ==
    /\ rsp.kind = "parts"
    /\ \A i \in 1..Len(rsp.parts) : rsp.parts[i].inline_data = NoInline

\* C4: for a response without any inline image payload
\* convert_to_notion_style returns None without raising, and the request is
\* answered with a 500 whose body differs from the 500 body of a request
\* whose upstream call raised.
C4_TextOnlyIsNoResult ==
    \A r \in Requests :
        (pc[r] \notin {"idle", "calling"} /\ TextOnly(resp[r]))
        => /\ extract_result(resp[r]) = Returned(None)
           /\ Answered(r)
           /\ response[r].status = 500
           /\ \A q \in Requests :
                (Answered(q) /\ resp[q].kind = "raise")
                => /\ response[q].status = 500
                   /\ response[q].body # response[r].body

C4_Witness ==
    \E r, q \in Requests :
        /\ Answered(r) /\ TextOnly(resp[r]) /\ Len(resp[r].parts) > 0
        /\ Answered(q) /\ resp[q].kind = "raise"
        /\ response[r].status = 500
        /\ response[q].status = 500

\* The payloads of a response, in part order.
Payloads(rsp) ==
    LET idx == { i \in 1..Len(rsp.parts) : rsp.parts[i].inline_data # NoInline }
    IN  [k \in 1..Cardinality(idx) |->
            rsp.parts[CHOOSE i \in idx : Cardinality({j \in idx : j < i}) = k - 1].inline_data]

\* C5: for a response with one or more inline payloads the outcome is that
\* of the first payload alone: its image when it decodes, and no result
\* (later payloads are no fallback) when it does not.
C5_FirstPayloadOnly ==
    \A r \in Requests :
        (pc[r] \notin {"idle", "calling"} /\ resp[r].kind = "parts"
            /\ Len(Payloads(resp[r])) > 0)
        => IF DecodePayload(Payloads(resp[r])[1]) # None
           THEN /\ image[r] = DecodePayload(Payloads(resp[r])[1])
                /\ response[r].status \in {0, 200}
           ELSE /\ image[r] = None
                /\ Answered(r)
                /\ response[r] = ErrorResponse(500, << "Failed to generate avatar" >>)

C5_Witness ==
    \E r \in Requests :
        /\ Answered(r)
        /\ resp[r] = PartsResponse(<< InlinePart("bytes", "junk"),
                                      InlinePart("bytes", "PNG(avatarA)") >>)
        /\ response[r].status = 500
        /\ image[r] = None

\* C6: a process started without GEMINI_API_KEY (unset or empty) exits with
\* a nonzero status and never serves: no request is received or answered,
\* and whenever the server serves, the key is set and the client exists.
C6_NoKeyNoServing ==
    /\ apiKey \in {None, ""}
       => /\ phase \in {"boot", "exited"}
          /\ phase = "exited" => exitStatus \in Nat \ {0}
          /\ \A r \in Requests : pc[r] = "idle"
          /\ getResp = NoGet
    /\ (phase = "serving" \/ getResp # NoGet \/ \E r \in Requests : Arrived(r))
       => /\ apiKey \notin {None, ""}
          /\ client # None

C6_Witness ==
    /\ apiKey = None
    /\ phase = "exited"
    /\ exitStatus = 1

\* C7: each request writes at most one file: a request answered with 200
\* has written exactly one, named notion_avatar_<second>.png and reported as
\* /outputs/<that name>; a request answered with 400 or 500 has written none.
C7_OneFilePerSuccess ==
    /\ \A r \in Requests :
         /\ writes[r] <= 1
         /\ response[r].status = 200
            => /\ writes[r] = 1
               /\ Len(response[r].body.results) = 1
               /\ response[r].body.results[1].fileName
                    = << "notion_avatar_", stamp[r] \div TicksPerSecond, ".png" >>
               /\ response[r].body.results[1].filePath
                    = << "/outputs/" >> \o response[r].body.results[1].fileName
               /\ response[r].body.results[1].fileName \in DOMAIN files
         /\ response[r].status # 200 => writes[r] = 0
    /\ Cardinality(DOMAIN files) <= Cardinality({r \in Requests : response[r].status = 200})

C7_Witness ==
    \E r, q \in Requests :
        /\ response[r].status = 200 /\ writes[r] = 1
        /\ response[q].status = 500 /\ writes[q] = 0 /\ calls[q] = 1
        /\ Cardinality(DOMAIN files) = 1

\* Presence, extension and size: the validation of the upload.
ValidationPasses(u) ==
    /\ u.present
    /\ HasAllowedExtension(u.filename)
    /\ u.size <= 10 * 1024 * 1024

\* C8, as stated: a request issues at most one upstream call, exactly one
\* when validation passes and the client is initialized, and none otherwise.
C8_OneCallWhenValid ==
    \A r \in Requests :
        /\ calls[r] <= 1
        /\ Arrived(r)
           => (calls[r] = 1 <=> (ValidationPasses(upload[r]) /\ client # None))

\* C8, amended: a request issues at most one upstream call, exactly one when
\* validation passes, the client is initialized and the uploaded bytes open
\* as an image, and none otherwise; when the call fails the request is
\* answered with an error at once, after that one call.
C8_NoRetry ==
    \A r \in Requests :
        /\ calls[r] <= 1
        /\ Arrived(r)
           => (calls[r] = 1 <=> (/\ ValidationPasses(upload[r])
                                 /\ client # None
                                 /\ upload[r].data # "corrupt"))
        /\ resp[r].kind \in {"raise", "blocked"}
           => /\ Answered(r)
              /\ response[r].status = 500
              /\ calls[r] = 1

C8_Witness ==
    \E r \in Requests :
        /\ resp[r].kind = "raise"
        /\ Answered(r)
        /\ response[r].status = 500
        /\ calls[r] = 1

\* C9: two requests answered with 200 that took their timestamps within the
\* same second report the same file name and path, and the output directory
\* holds one file of that name, with the image of one of the requests that
\* were saved under it.
C9_SameSecondSameFile ==
    \A r, q \in Requests :
        (r # q /\ response[r].status = 200 /\ response[q].status = 200
           /\ stamp[r] \div TicksPerSecond = stamp[q] \div TicksPerSecond)
        => /\ response[r].body.results[1].filePath = response[q].body.results[1].filePath
           /\ response[r].body.results[1].fileName \in DOMAIN files
           /\ \E w \in Requests :
                /\ response[w].status = 200
                /\ response[w].body.results[1].fileName
                     = response[r].body.results[1].fileName
                /\ files[response[r].body.results[1].fileName] = PngEncode(image[w])

\* Both answered 200 with one path, at different instants of one second,
\* and the only file holds the image of q: the output of r is gone.
C9_Witness ==
    \E r, q \in Requests :
        /\ r # q
        /\ response[r].status = 200 /\ response[q].status = 200
        /\ stamp[r] # stamp[q]
        /\ response[r].body.results[1].filePath = response[q].body.results[1].filePath
        /\ image[r] # image[q]
        /\ DOMAIN files = { response[r].body.results[1].fileName }
        /\ files[response[r].body.results[1].fileName] = PngEncode(image[q])
        /\ files[response[r].body.results[1].fileName] # PngEncode(image[r])

\* The three fixed reference images.
FixedReferences ==
    << [name |-> "reference-avatar-2.png", mode |-> "RGB"],
       [name |-> "reference-avatar-3.png", mode |-> "RGB"],
       [name |-> "reference-image-6.png", mode |-> "RGB"] >>

\* Those of the fixed reference images whose file exists and opens, in order.
ExpectedReferences ==
    LET idx == { i \in 1..3 : refFiles[i] \notin {"missing", "corrupt"} }
    IN  [k \in 1..Cardinality(idx) |->
            FixedReferences[CHOOSE i \in idx : Cardinality({j \in idx : j < i}) = k - 1]]

\* What an upstream request carries: the references, the user image, the prompt.
CarriesReferences(c, refs) ==
    /\ Len(c) = Len(refs) + 2
    /\ SubSeq(c, 1, Len(refs)) = refs
    /\ c[Len(refs) + 1].name = "upload"
    /\ c[Len(refs) + 2] = PROMPT

\* C10, as stated: while the server serves, the reference image set is the
\* three fixed reference images in their order, and every upstream request
\* carries them ahead of the user image and the prompt.
C10_ThreeReferences ==
    phase = "serving"
    => /\ reference_images = FixedReferences
       /\ \A r \in Requests : calls[r] > 0 => CarriesReferences(contents[r], FixedReferences)

\* C10, amended: while the server serves, the reference image set is those
\* of the three fixed reference images whose file exists and opens at
\* start-up, in their fixed order (all three when all are in place); no
\* request changes it, and every upstream request carries that set ahead of
\* the user image and the prompt.
C10_LoadedReferences ==
    /\ phase = "serving"
       => /\ reference_images = ExpectedReferences
          /\ \A r \in Requests :
               calls[r] > 0 => CarriesReferences(contents[r], ExpectedReferences)
    /\ phase # "serving" => reference_images = << >>

C10_Witness ==
    /\ phase = "serving"
    /\ refFiles[2] = "missing"
    /\ Len(reference_images) = 2
    /\ getResp.route = "/health"
    /\ \E r \in Requests : Answered(r) /\ calls[r] = 1 /\ Len(contents[r]) = 4

====
